---- MODULE Spec2Model ----
(***************************************************************************)
(* Model of bindings/python/setup.py of pubky-core-ffi: one run of the     *)
(* build script.  The script is a single statement, the call               *)
(*   setup(name=..., packages=find_packages(), package_data={...}, ...,    *)
(*         long_description=open("README.md").read(), ...)                 *)
(* Python evaluates the keyword arguments in the order they are written    *)
(* and only then enters setup(), so a run is the sequence                  *)
(*   import ; find_packages() ; open("README.md") ; .read() ; setup(...)   *)
(* The build environment (README.md and the package tree next to           *)
(* setup.py) is chosen in Init and is part of the state, so that the       *)
(* effect of the run on it can be stated.                                  *)
(***************************************************************************)
EXTENDS Naturals, Sequences, FiniteSets

VARIABLES
    readme,            \* the file README.md of the build environment
    tree,              \* the directories next to setup.py and their files
    pc,                \* position of the run in the script
    packages,          \* value of find_packages(), once evaluated
    long_description,  \* value of open("README.md").read(): <<>> or <<text>>
    opens,             \* number of open("README.md") calls made
    reads,             \* number of .read() calls made
    setupCalls,        \* number of times setup() has been entered
    setupArgs,         \* the keyword arguments setup() was called with
    distModules,       \* <<package, file>>: modules put in the distribution
    distData,          \* <<package, file>>: package data put in the distribution
    error              \* the exception that ended the run, or "none"

vars == <<readme, tree, pc, packages, long_description, opens, reads,
          setupCalls, setupArgs, distModules, distData, error>>

env == <<readme, tree>>

-----------------------------------------------------------------------------
(* Bounds of the build environments explored.                              *)

MaxFiles == 2      \* at most this many files in one directory
MaxReadme == 2     \* number of distinct README.md contents

-----------------------------------------------------------------------------
(* The build environment.                                                  *)

\* File names are sequences of characters, so that a glob pattern is
\* matched against them character by character.
FileNames ==
    { <<"l", ".", "s", "o">>,
      <<"l", ".", "d", "y", "l", "i", "b">>,
      <<"l", ".", "d", "l", "l">>,
      <<"l", ".", "p", "y">>,
      <<"l", ".", "s", "o", ".", "1">>,
      <<"l", "s", "o">> }

DirNames == {"pubkycore", "tests"}

NoDir == [present |-> FALSE, init |-> FALSE, files |-> {}]

\* A directory is absent, or present with or without an __init__.py and
\* with a set of other files.
DirStates ==
    {NoDir} \cup
    { [present |-> TRUE, init |-> i, files |-> fs] :
        i \in BOOLEAN,
        fs \in { s \in SUBSET FileNames : Cardinality(s) <= MaxFiles } }

Trees == [DirNames -> DirStates]

\* README.md is missing, present but not readable by the build user, or
\* present with one of MaxReadme contents.
ReadmeFiles ==
    { [exists |-> FALSE, readable |-> FALSE, text |-> 1],
      [exists |-> TRUE, readable |-> FALSE, text |-> 1] } \cup
    { [exists |-> TRUE, readable |-> TRUE, text |-> t] : t \in 1..MaxReadme }

-----------------------------------------------------------------------------
(* The values written in the script.                                       *)

\* "*.so", "*.dylib", "*.dll"
NativePatterns ==
    << <<"*", ".", "s", "o">>,
       <<"*", ".", "d", "y", "l", "i", "b">>,
       <<"*", ".", "d", "l", "l">> >>

\* package_data={"pubkycore": ["*.so", "*.dylib", "*.dll"]}
package_data == [pubkycore |-> NativePatterns]

classifiers ==
    << "Programming Language :: Python :: 3",
       "License :: OSI Approved :: MIT License",
       "Operating System :: OS Independent" >>

NoArgs == [called |-> FALSE]

\* Variant of SetupArgs: the version is derived from the README text.
SetupArgsVersionFromReadme(pkgs, text) ==
    [ called |-> TRUE,
      name |-> "pubkycore",
      version |-> IF text = <<1>> THEN "0.1.0" ELSE "0.1.1",
      packages |-> pkgs,
      package_data |-> package_data,
      install_requires |-> <<>>,
      author |-> "Pubky",
      author_email |-> "",
      description |-> "Python bindings for the Pubky Mobile SDK",
      long_description |-> text,
      long_description_content_type |-> "text/markdown",
      url |-> "",
      classifiers |-> classifiers,
      python_requires |-> ">=3.6" ]

\* The keyword arguments of the call, given the two computed ones.
SetupArgs(pkgs, text) ==
    [ called |-> TRUE,
      name |-> "pubkycore",
      version |-> "0.1.0",
      packages |-> pkgs,
      package_data |-> package_data,
      install_requires |-> <<>>,
      author |-> "Pubky",
      author_email |-> "",
      description |-> "Python bindings for the Pubky Mobile SDK",
      long_description |-> text,
      long_description_content_type |-> "text/markdown",
      url |-> "",
      classifiers |-> classifiers,
      python_requires |-> ">=3.6" ]

-----------------------------------------------------------------------------
(* What the setuptools calls of the script compute.                        *)

\* find_packages(): the directories that hold an __init__.py.
find_packages(t) == { d \in DirNames : t[d].present /\ t[d].init }

\* Shell-style match of a file name against a pattern: "*" matches any run
\* of characters, every other character matches itself.
RECURSIVE Match(_, _)
Match(pat, nm) ==
    IF pat = <<>> THEN nm = <<>>
    ELSE IF Head(pat) = "*"
         THEN Match(Tail(pat), nm) \/ (nm # <<>> /\ Match(pat, Tail(nm)))
         ELSE nm # <<>> /\ Head(nm) = Head(pat) /\ Match(Tail(pat), Tail(nm))

MatchesAny(pats, nm) == \E i \in 1..Len(pats) : Match(pats[i], nm)

\* Variant of PackageDataFiles: the patterns are not applied.
PackageDataAllFiles(pkgs, pdata, t) ==
    { pf \in pkgs \X FileNames :
        /\ pf[1] \in DOMAIN pdata
        /\ pf[2] \in t[pf[1]].files }

\* Variant of PackageDataFiles: every directory named in package_data is
\* searched, whether or not it is one of the packages being built.
PackageDataByDirectory(pkgs, pdata, t) ==
    { pf \in (DOMAIN pdata) \X FileNames :
        /\ t[pf[1]].present
        /\ pf[2] \in t[pf[1]].files
        /\ MatchesAny(pdata[pf[1]], pf[2]) }

\* The package data of the packages being built: for each package that has
\* an entry in package_data, the files of its directory matching a pattern.
PackageDataFiles(pkgs, pdata, t) ==
    { pf \in pkgs \X FileNames :
        /\ pf[1] \in DOMAIN pdata
        /\ pf[2] \in t[pf[1]].files
        /\ MatchesAny(pdata[pf[1]], pf[2]) }

\* The modules of the packages being built: their *.py files.
ModuleFiles(pkgs, t) ==
    { pf \in pkgs \X FileNames :
        /\ pf[2] \in t[pf[1]].files
        /\ Match(<<"*", ".", "p", "y">>, pf[2]) }

-----------------------------------------------------------------------------
(* The run.                                                                *)

Init ==
    /\ readme \in ReadmeFiles
    /\ tree \in Trees
    /\ pc = "start"
    /\ packages = {}
    /\ long_description = <<>>
    /\ opens = 0
    /\ reads = 0
    /\ setupCalls = 0
    /\ setupArgs = NoArgs
    /\ distModules = {}
    /\ distData = {}
    /\ error = "none"

\* from setuptools import setup, find_packages
Import ==
    /\ pc = "start"
    /\ pc' = "imported"
    /\ UNCHANGED <<readme, tree, packages, long_description, opens, reads,
                   setupCalls, setupArgs, distModules, distData, error>>

\* packages=find_packages()
FindPackages ==
    /\ pc = "imported"
    /\ packages' = find_packages(tree)
    /\ pc' = "found"
    /\ UNCHANGED <<readme, tree, long_description, opens, reads,
                   setupCalls, setupArgs, distModules, distData, error>>

\* Variant of OpenReadme: a missing or unreadable README.md is tolerated
\* and the run goes on.
OpenReadmeTolerant ==
    /\ pc = "found"
    /\ opens' = opens + 1
    /\ pc' = "opened"
    /\ UNCHANGED <<readme, tree, packages, long_description, reads,
                   setupCalls, setupArgs, distModules, distData, error>>

\* Variant of OpenReadme: the file is opened for writing, which creates or
\* truncates it.
OpenReadmeForWriting ==
    /\ pc = "found"
    /\ opens' = opens + 1
    /\ readme' = [exists |-> TRUE, readable |-> TRUE, text |-> 1]
    /\ pc' = "opened"
    /\ UNCHANGED <<tree, packages, long_description, reads,
                   setupCalls, setupArgs, distModules, distData, error>>

\* open("README.md"): mode "r"; raises when the file cannot be opened, and
\* the exception is not caught, so the run ends there.
OpenReadme ==
    /\ pc = "found"
    /\ opens' = opens + 1
    /\ \/ /\ ~readme.exists
          /\ pc' = "failed"
          /\ error' = "FileNotFoundError"
       \/ /\ readme.exists /\ ~readme.readable
          /\ pc' = "failed"
          /\ error' = "PermissionError"
       \/ /\ readme.exists /\ readme.readable
          /\ pc' = "opened"
          /\ error' = error
    /\ UNCHANGED <<readme, tree, packages, long_description, reads,
                   setupCalls, setupArgs, distModules, distData>>

\* Variant of ReadReadme: the read never returns.
ReadReadmeBlocks ==
    /\ pc = "opened"
    /\ UNCHANGED vars

\* .read()
ReadReadme ==
    /\ pc = "opened"
    /\ long_description' = <<readme.text>>
    /\ reads' = reads + 1
    /\ pc' = "read"
    /\ UNCHANGED <<readme, tree, packages, opens, setupCalls, setupArgs,
                   distModules, distData, error>>

\* Variant of CallSetup: setup() is entered a second time.
CallSetupTwice ==
    /\ pc = "read"
    /\ setupCalls' = setupCalls + 1
    /\ setupArgs' = SetupArgs(packages, long_description)
    /\ distModules' = ModuleFiles(packages, tree)
    /\ distData' = PackageDataFiles(packages, package_data, tree)
    /\ pc' = IF setupCalls = 0 THEN "read" ELSE "done"
    /\ UNCHANGED <<readme, tree, packages, long_description, opens, reads,
                   error>>

\* Variant of CallSetup: setup() is entered before README.md is opened,
\* the description being left for later.
CallSetupBeforeRead ==
    /\ pc = "found"
    /\ setupCalls = 0
    /\ setupCalls' = setupCalls + 1
    /\ setupArgs' = SetupArgs(packages, long_description)
    /\ distModules' = ModuleFiles(packages, tree)
    /\ distData' = PackageDataFiles(packages, package_data, tree)
    /\ pc' = "found"
    /\ UNCHANGED <<readme, tree, packages, long_description, opens, reads,
                   error>>

\* setup(...): entered with all arguments evaluated; records the metadata
\* and collects the files of the distribution.
CallSetup ==
    /\ pc = "read"
    /\ setupCalls' = setupCalls + 1
    /\ setupArgs' = SetupArgs(packages, long_description)
    /\ distModules' = ModuleFiles(packages, tree)
    /\ distData' = PackageDataFiles(packages, package_data, tree)
    /\ pc' = "done"
    /\ UNCHANGED <<readme, tree, packages, long_description, opens, reads,
                   error>>

Next ==
    \/ Import
    \/ FindPackages
    \/ OpenReadme
    \/ ReadReadme
    \/ CallSetup

Spec == Init /\ [][Next]_vars

\* The script is one synchronous statement: the interpreter always takes
\* the next step when there is one.
FairSpec == Spec /\ WF_vars(Next)

Terminated == pc \in {"done", "failed"}

-----------------------------------------------------------------------------
(* Properties of a run.                                                    *)

ReadmeOk == readme.exists /\ readme.readable

EndsWith(nm, suf) ==
    /\ Len(nm) >= Len(suf)
    /\ SubSeq(nm, Len(nm) - Len(suf) + 1, Len(nm)) = suf

\* A file name with the extension .so, .dylib or .dll.
IsNativeLib(nm) ==
    \/ EndsWith(nm, <<".", "s", "o">>)
    \/ EndsWith(nm, <<".", "d", "y", "l", "i", "b">>)
    \/ EndsWith(nm, <<".", "d", "l", "l">>)

LibSo == <<"l", ".", "s", "o">>

C2_PackageDataExact ==
    pc = "done" =>
        \A d \in DirNames : \A f \in FileNames :
            (<<d, f>> \in distData) <=>
                /\ d = "pubkycore"
                /\ tree[d].present /\ tree[d].init
                /\ f \in tree[d].files
                /\ IsNativeLib(f)

C2_Witness ==
    /\ pc = "done"
    /\ <<"pubkycore", LibSo>> \in distData
    /\ \E f \in tree["pubkycore"].files : <<"pubkycore", f>> \notin distData
    /\ \E f \in tree["tests"].files : "tests" \in packages /\ IsNativeLib(f)

\* C3: a run opens and reads README.md at most once and enters setup() at
\* most once; a successful run has read once and entered setup() once.
C3_SingleShot ==
    /\ opens <= 1
    /\ reads <= 1
    /\ setupCalls <= 1
    /\ pc = "done" => (opens = 1 /\ reads = 1 /\ setupCalls = 1)

C3_Witness == pc = "done" /\ opens = 1 /\ reads = 1 /\ setupCalls = 1

\* C4: every run terminates: it reaches done or failed, and until then a
\* step of the script is always possible.
C4_Terminates ==
    /\ [](~Terminated => ENABLED Next)
    /\ <>Terminated

C4_Witness == Terminated /\ pc = "done" /\ packages = DirNames

\* C5: no step of a run changes README.md or the package tree.
C5_EnvironmentUnchanged == [][env' = env]_vars

C5_Witness ==
    /\ pc = "done"
    /\ opens = 1
    /\ LibSo \in tree["pubkycore"].files
    /\ <<"pubkycore", LibSo>> \in distData

\* C6: whatever the build environment, setup() receives the same name,
\* version, author, install_requires, python_requires, classifiers and
\* package_data patterns.
C6_StaticMetadata ==
    setupArgs.called =>
        /\ setupArgs.name = "pubkycore"
        /\ setupArgs.version = "0.1.0"
        /\ setupArgs.author = "Pubky"
        /\ setupArgs.install_requires = <<>>
        /\ setupArgs.python_requires = ">=3.6"
        /\ setupArgs.classifiers =
               << "Programming Language :: Python :: 3",
                  "License :: OSI Approved :: MIT License",
                  "Operating System :: OS Independent" >>
        /\ DOMAIN setupArgs.package_data = {"pubkycore"}
        /\ setupArgs.package_data["pubkycore"] =
               << <<"*", ".", "s", "o">>,
                  <<"*", ".", "d", "y", "l", "i", "b">>,
                  <<"*", ".", "d", "l", "l">> >>

C6_Witness ==
    /\ setupArgs.called
    /\ setupArgs.long_description = <<2>>
    /\ setupArgs.packages = {"tests"}

\* C7: setup() is entered only after README.md has been read, and with
\* README.md missing it is never entered and nothing is produced.
C7_ReadBeforeSetup ==
    /\ setupCalls > 0 =>
           (reads = 1 /\ setupArgs.long_description = <<readme.text>>)
    /\ ~readme.exists =>
           /\ setupCalls = 0
           /\ setupArgs = NoArgs
           /\ distModules = {}
           /\ distData = {}

C7_Witness ==
    /\ pc = "failed"
    /\ ~readme.exists
    /\ setupCalls = 0
    /\ "pubkycore" \in packages
    /\ LibSo \in tree["pubkycore"].files

\* C8: when find_packages() does not return pubkycore, the distribution
\* holds no .so, .dylib or .dll file, and the run succeeds without error
\* provided README.md can be read.
C8_NoPackageNoLibs ==
    "pubkycore" \notin find_packages(tree) =>
        /\ \A pf \in distData \cup distModules : ~IsNativeLib(pf[2])
        /\ ReadmeOk => (pc # "failed" /\ error = "none")
        /\ (Terminated /\ ReadmeOk) => (pc = "done" /\ setupCalls = 1)

C8_Witness ==
    /\ pc = "done"
    /\ error = "none"
    /\ "pubkycore" \notin packages
    /\ tree["pubkycore"].present
    /\ LibSo \in tree["pubkycore"].files
    /\ distData = {}

====
